---- MODULE Spec2Model ----
(***************************************************************************)
(* A model of the RequestBuilder of package http_request: the chainable    *)
(* configuration calls and the request execution behind Get and PostJSON.  *)
(*                                                                         *)
(* Text (URLs, header names and values, bodies, command lines) is a        *)
(* sequence of one-character strings, so that canonicalisation, quoting,   *)
(* joining and compression are computed and not assumed.                   *)
(***************************************************************************)
EXTENDS Integers, Sequences, FiniteSets, TLC

VARIABLES
    c,      \* the RequestBuilder: its seven fields
    heap,   \* the http.Client objects, by address (0 is the nil pointer)
    last    \* the most recent call: what a Get / PostJSON did and returned
            \* (called is FALSE after a configuration call)

vars == <<c, heap, last>>

(***************************************************************************)
(* Bounds of the exploration.                                              *)
(***************************************************************************)
\* redirects one execution may follow (net/http stops at 10)
MaxHops == 1

(***************************************************************************)
(* Text helpers.                                                           *)
(***************************************************************************)
Lowers == <<"a","b","c","d","e","f","g","h","i","j","k","l","m",
            "n","o","p","q","r","s","t","u","v","w","x","y","z">>
Uppers == <<"A","B","C","D","E","F","G","H","I","J","K","L","M",
            "N","O","P","Q","R","S","T","U","V","W","X","Y","Z">>

UpperOf == [ch \in {Lowers[i] : i \in 1..Len(Lowers)} |->
               Uppers[CHOOSE i \in 1..Len(Lowers) : Lowers[i] = ch]]
LowerOf == [ch \in {Uppers[i] : i \in 1..Len(Uppers)} |->
               Lowers[CHOOSE i \in 1..Len(Uppers) : Uppers[i] = ch]]

ToUpper(ch) == IF ch \in DOMAIN UpperOf THEN UpperOf[ch] ELSE ch

ToLower(ch) == IF ch \in DOMAIN LowerOf THEN LowerOf[ch] ELSE ch

Contains(s, ch) == \E i \in 1..Len(s) : s[i] = ch

RECURSIVE Flatten(_)
Flatten(ss) == IF ss = <<>> THEN <<>> ELSE Head(ss) \o Flatten(Tail(ss))

\* strings.Join(args, " ")
RECURSIVE Join(_)
Join(args) ==
    IF args = <<>> THEN <<>>
    ELSE IF Len(args) = 1 THEN args[1]
    ELSE args[1] \o <<" ">> \o Join(Tail(args))

\* strconv.Quote: a double-quoted Go string literal with escapes
QuoteChar(ch) ==
    IF ch = "\"" THEN <<"\\", "\"">>
    ELSE IF ch = "\\" THEN <<"\\", "\\">>
    ELSE IF ch = "\t" THEN <<"\\", "t">>
    ELSE <<ch>>

Quote(s) == <<"\"">> \o Flatten([i \in 1..Len(s) |-> QuoteChar(s[i])]) \o <<"\"">>

quoteSh(s) ==
    IF ~Contains(s, "'") THEN <<"'">> \o s \o <<"'">>
    ELSE Quote(s)

(***************************************************************************)
(* net/url: url.Parse fails on a missing protocol scheme (a leading colon) *)
(* and on a control character; the empty string parses.                    *)
(***************************************************************************)
ParseFails(u) == (u # <<>> /\ u[1] = ":") \/ Contains(u, "\t")

\* an error value: its kind, its message text and, for a status error, the
\* response's code and status line
NoErr == [kind |-> "nil", text |-> <<>>, code |-> 0, status |-> <<>>]
Err(k, t) == [kind |-> k, text |-> t, code |-> 0, status |-> <<>>]

(***************************************************************************)
(* http.Header: a map from canonical key to a list of values.              *)
(***************************************************************************)
CanonicalKey(s) ==
    [i \in 1..Len(s) |->
        IF i = 1 \/ s[i-1] = "-" THEN ToUpper(s[i]) ELSE ToLower(s[i])]

EmptyHeader == [k \in {} |-> <<>>]

HSet(h, name, value) ==
    LET k == CanonicalKey(name)
    IN  [x \in DOMAIN h \cup {k} |-> IF x = k THEN <<value>> ELSE h[x]]

HAdd(h, name, value) ==
    LET k == CanonicalKey(name)
    IN  [x \in DOMAIN h \cup {k} |->
            IF x = k
            THEN (IF k \in DOMAIN h THEN Append(h[k], value) ELSE <<value>>)
            ELSE h[x]]

ContentType == <<"C","o","n","t","e","n","t","-","T","y","p","e">>
ContentEncoding ==
    <<"C","o","n","t","e","n","t","-","E","n","c","o","d","i","n","g">>
AppJSON == <<"a","p","p","l","i","c","a","t","i","o","n","/","j","s","o","n">>
Gzip == <<"g","z","i","p">>

(***************************************************************************)
(* http.Client objects.                                                    *)
(***************************************************************************)
NilClient == 0
DefaultClient == 1
CallerClients == {2, 3}

NoTransport == [kind |-> "nil", proxy |-> <<>>]
ProxyTransport(u) == [kind |-> "proxy", proxy |-> u]

\* the clients that exist before the builder does: http.DefaultClient and the
\* two clients the caller owns and may hand to WithClient
InitHeap ==
    [a \in {DefaultClient} \cup CallerClients |->
        IF a = 2
        THEN [Transport |-> [kind |-> "caller", proxy |-> <<>>],
              CheckRedirect |-> "caller"]
        ELSE [Transport |-> NoTransport, CheckRedirect |-> "nil"]]

\* Go's collector: a client the builder allocated lives while the builder
\* points to it
Collect(b, hp) ==
    [a \in (DOMAIN InitHeap \cup {b.client}) \ {NilClient} |-> hp[a]]

\* the address of a new object
NewAddr(hp) == CHOOSE a \in 1..(Cardinality(DOMAIN hp) + 1) : a \notin DOMAIN hp

\* hp with a new object obj at address a
Alloc(hp, a, obj) == [x \in DOMAIN hp \cup {a} |-> IF x = a THEN obj ELSE hp[x]]

NoBody == [present |-> FALSE, bytes |-> <<>>]
Body(b) == [present |-> TRUE, bytes |-> b]

NoRequest ==
    [present |-> FALSE, method |-> "", url |-> <<>>,
     header |-> EmptyHeader, body |-> NoBody]

NoLog == [present |-> FALSE, args |-> <<>>, cmdLog |-> <<>>]

NoResponse ==
    [kind |-> "none", code |-> 0, status |-> <<>>, location |-> <<>>,
     body |-> <<>>]

NoClientValue == [Transport |-> NoTransport, CheckRedirect |-> "none"]

NoEnv == [gzOk |-> TRUE, writeOk |-> TRUE, hook |-> "allow", readOk |-> TRUE,
          answers |-> <<>>, order |-> <<>>]

\* the record of a call: of a Get / PostJSON, its arguments, the request it
\* assembled, what it logged, the writes and sends it made in their order, the
\* client it sent with, what the environment decided, whether the call before
\* it was the same call, and what request and the call returned; of a
\* configuration call, NoCall
NoCall ==
    [ called   |-> FALSE,
      post     |-> FALSE,
      url      |-> <<>>,
      data     |-> [type |-> "nil", val |-> <<>>],
      res      |-> "nil",
      req      |-> NoRequest,
      gzipped  |-> FALSE,
      logged   |-> NoLog,
      events   |-> <<>>,
      client   |-> NoClientValue,
      httpResp |-> NoResponse,
      resp     |-> NoBody,
      err      |-> NoErr,
      env      |-> NoEnv,
      again    |-> FALSE,
      ret      |-> NoErr,
      out      |-> [kind |-> "unset", val |-> <<>>] ]

(***************************************************************************)
(* New()                                                                   *)
(***************************************************************************)
New ==
    [ buildErr        |-> NoErr,
      header          |-> EmptyHeader,
      log             |-> FALSE,
      logFile         |-> <<>>,
      enableCompress  |-> FALSE,
      disableRedirect |-> FALSE,
      client          |-> NilClient ]

Init ==
    /\ c = New
    /\ heap = InitHeap
    /\ last = NoCall

(***************************************************************************)
(* Configuration calls.                                                    *)
(***************************************************************************)
\* a Header that appends, as http.Header.Add does
SetHeaderAppends(b, name, value) ==
    [b EXCEPT !.header = HAdd(b.header, name, value)]

SetHeader(b, name, value) == [b EXCEPT !.header = HSet(b.header, name, value)]

Header(name, value) ==
    /\ c' = SetHeader(c, name, value)
    /\ last' = NoCall
    /\ UNCHANGED heap

\* a WithProxy that stores whatever url.Parse returns, over an earlier error
ProxyResultOverwrites(b, hp, proxyURL) ==
    IF proxyURL = <<>> THEN [c |-> b, heap |-> hp]
    ELSE IF ParseFails(proxyURL)
    THEN [c |-> [b EXCEPT !.buildErr = Err("url.Parse", proxyURL)], heap |-> hp]
    ELSE [c    |-> [b EXCEPT !.buildErr = NoErr, !.client = NewAddr(hp)],
          heap |-> Alloc(hp, NewAddr(hp),
                         [Transport |-> ProxyTransport(proxyURL),
                          CheckRedirect |->
                            IF b.client = NilClient THEN "nil"
                            ELSE hp[b.client].CheckRedirect])]

\* a WithProxy without the check of buildErr
ProxyResultUnguarded(b, hp, proxyURL) ==
    IF proxyURL = <<>> THEN [c |-> b, heap |-> hp]
    ELSE IF ParseFails(proxyURL)
    THEN [c |-> [b EXCEPT !.buildErr =
                    IF b.buildErr # NoErr THEN b.buildErr
                    ELSE Err("url.Parse", proxyURL)],
          heap |-> hp]
    ELSE [c    |-> [b EXCEPT !.client = NewAddr(hp)],
          heap |-> Alloc(hp, NewAddr(hp),
                         [Transport |-> ProxyTransport(proxyURL),
                          CheckRedirect |->
                            IF b.client = NilClient THEN "nil"
                            ELSE hp[b.client].CheckRedirect])]

\* the builder and the heap after WithProxy(proxyURL)
ProxyResult(b, hp, proxyURL) ==
    IF proxyURL = <<>> THEN [c |-> b, heap |-> hp]
    ELSE IF b.buildErr # NoErr THEN [c |-> b, heap |-> hp]
    ELSE IF ParseFails(proxyURL)
    THEN [c |-> [b EXCEPT !.buildErr = Err("url.Parse", proxyURL)], heap |-> hp]
    ELSE IF b.client = NilClient
    THEN [c    |-> [b EXCEPT !.client = NewAddr(hp)],
          heap |-> Alloc(hp, NewAddr(hp),
                         [Transport |-> ProxyTransport(proxyURL),
                          CheckRedirect |-> "nil"])]
    ELSE [c    |-> [b EXCEPT !.client = NewAddr(hp)],
          heap |-> Alloc(hp, NewAddr(hp),
                         [hp[b.client] EXCEPT
                            !.Transport = ProxyTransport(proxyURL)])]

WithProxy(proxyURL) ==
    LET r == ProxyResult(c, heap, proxyURL)
    IN  /\ c' = r.c
        /\ heap' = Collect(r.c, r.heap)
        /\ last' = NoCall

SetClient(b, client) == [b EXCEPT !.client = client]

WithClient(client) ==
    /\ c' = SetClient(c, client)
    /\ heap' = Collect(c', heap)
    /\ last' = NoCall

Compressed ==
    /\ c' = [c EXCEPT !.enableCompress = TRUE]
    /\ last' = NoCall
    /\ UNCHANGED heap

DisableRedirect ==
    /\ c' = [c EXCEPT !.disableRedirect = TRUE]
    /\ last' = NoCall
    /\ UNCHANGED heap

\* Log(v ...bool): v is the list of arguments given
Log(v) ==
    /\ c' = [c EXCEPT !.log = IF Len(v) > 0 THEN v[1] ELSE TRUE]
    /\ last' = NoCall
    /\ UNCHANGED heap

LogFile(logFile) ==
    /\ c' = [c EXCEPT !.logFile = logFile]
    /\ last' = NoCall
    /\ UNCHANGED heap

(***************************************************************************)
(* Payloads, serialisation and compression.                                *)
(*                                                                         *)
(* A payload is nil, a []byte, a json.RawMessage, a string, or another Go  *)
(* value: a map with one key and one number (which json.Marshal renders as *)
(* {"k":n}) or a channel (which json.Marshal refuses).                     *)
(***************************************************************************)
NilData == [type |-> "nil", val |-> <<>>]

Marshal(d) ==
    IF d.type = "chan"
    THEN [err |-> Err("json.UnsupportedTypeError", <<>>), bytes |-> <<>>]
    ELSE [err   |-> NoErr,
          bytes |-> <<"{", "\"", d.val[1], "\"", ":", d.val[2], "}">>]

\* a gzip stream: the magic bytes and the method, the data, the trailer
GzMagic == <<"<1f>", "<8b>", "<08>">>
GzTrailer == <<"<crc32>", "<isize>">>

\* gzipData: ok is whether the gzip writer's Copy, Flush and Close succeed
gzipData(data, ok) ==
    IF ok
    THEN [err |-> NoErr, bytes |-> GzMagic \o data \o GzTrailer]
    ELSE [err |-> Err("gzip", <<>>), bytes |-> <<>>]

\* the inverse a receiving server applies: it yields the data of a valid stream
IsGzip(b) ==
    /\ Len(b) >= Len(GzMagic) + Len(GzTrailer)
    /\ SubSeq(b, 1, Len(GzMagic)) = GzMagic
    /\ SubSeq(b, Len(b) - Len(GzTrailer) + 1, Len(b)) = GzTrailer

Gunzip(b) == SubSeq(b, Len(GzMagic) + 1, Len(b) - Len(GzTrailer))

(***************************************************************************)
(* request, lines 100-146: the method and the body.  The result is the     *)
(* error of an early return, or the body reader and what will be logged.   *)
(***************************************************************************)
\* a Serialize whose log data follows the body reader through compression
SerializeLogsWire(b, post, data, gzOk) ==
    LET bytes == IF data.type \in {"[]byte", "json.RawMessage", "string"}
                 THEN data.val ELSE Marshal(data).bytes
    IN  IF ~post \/ data.type = "nil"
        THEN [err |-> NoErr, body |-> NoBody, logData |-> <<>>,
              gzipped |-> FALSE, askedGz |-> FALSE]
        ELSE IF data.type \in {"map", "chan"} /\ Marshal(data).err # NoErr
        THEN [err |-> Marshal(data).err, body |-> NoBody, logData |-> <<>>,
              gzipped |-> FALSE, askedGz |-> FALSE]
        ELSE IF ~b.enableCompress
        THEN [err |-> NoErr, body |-> Body(bytes), logData |-> bytes,
              gzipped |-> FALSE, askedGz |-> FALSE]
        ELSE IF gzipData(bytes, gzOk).err # NoErr
        THEN [err |-> Err("compress body err", <<"gzip">>), body |-> NoBody,
              logData |-> <<>>, gzipped |-> FALSE, askedGz |-> TRUE]
        ELSE [err |-> NoErr, body |-> Body(gzipData(bytes, gzOk).bytes),
              logData |-> gzipData(bytes, gzOk).bytes,
              gzipped |-> TRUE, askedGz |-> TRUE]

Serialize(b, post, data, gzOk) ==
    LET plain ==
            IF ~post \/ data.type = "nil"
            THEN [err |-> NoErr, body |-> NoBody, logData |-> <<>>]
            ELSE IF data.type \in {"[]byte", "json.RawMessage", "string"}
            THEN [err |-> NoErr, body |-> Body(data.val), logData |-> data.val]
            ELSE LET m == Marshal(data)
                 IN  IF m.err # NoErr
                     THEN [err |-> m.err, body |-> NoBody, logData |-> <<>>]
                     ELSE [err |-> NoErr, body |-> Body(m.bytes),
                           logData |-> m.bytes]
    IN  IF plain.err # NoErr
        THEN [err |-> plain.err, body |-> NoBody, logData |-> <<>>,
              gzipped |-> FALSE, askedGz |-> FALSE]
        ELSE IF plain.body.present /\ b.enableCompress
        THEN LET z == gzipData(plain.body.bytes, gzOk)
             IN  IF z.err # NoErr
                 THEN [err |-> Err("compress body err", <<z.err.kind>>),
                       body |-> NoBody, logData |-> <<>>,
                       gzipped |-> FALSE, askedGz |-> TRUE]
                 ELSE [err |-> NoErr, body |-> Body(z.bytes),
                       logData |-> plain.logData,
                       gzipped |-> TRUE, askedGz |-> TRUE]
        ELSE [err |-> NoErr, body |-> plain.body, logData |-> plain.logData,
              gzipped |-> FALSE, askedGz |-> FALSE]

(***************************************************************************)
(* request, lines 152-160: the builder's headers are added to the new      *)
(* request's own header map, then Content-Type is set for a POST.          *)
(***************************************************************************)
RECURSIVE AddValues(_, _, _)
AddValues(h, key, values) ==
    IF values = <<>> THEN h
    ELSE AddValues(HAdd(h, key, Head(values)), key, Tail(values))

RECURSIVE AddAll(_, _, _)
AddAll(h, src, keys) ==
    IF keys = {} THEN h
    ELSE LET k == CHOOSE x \in keys : TRUE
         IN  AddAll(AddValues(h, k, src[k]), src, keys \ {k})

\* a request that takes the builder's header map for its own, so that
\* Content-Type lands in the builder
ApplyHeadersShared(b, jsonContent) ==
    LET h == IF jsonContent THEN HSet(b.header, ContentType, AppJSON)
             ELSE b.header
    IN  [c |-> [b EXCEPT !.header = h], header |-> h]

\* the builder after the call and the request's headers
ApplyHeaders(b, jsonContent) ==
    LET added == AddAll(EmptyHeader, b.header, DOMAIN b.header)
    IN  [c      |-> b,
         header |-> IF jsonContent THEN HSet(added, ContentType, AppJSON)
                    ELSE added]

(***************************************************************************)
(* request, lines 161-186: the diagnostic command.  order is the order in  *)
(* which the range over the request's header map yields its keys.          *)
(***************************************************************************)
Tcurl == <<"c","u","r","l">>
Tv == <<"-","v">>
TX == <<"-","X">>
TH == <<"-","H">>
TDataBinary == <<"-","-","d","a","t","a","-","b","i","n","a","r","y">>
TMethod(m) == IF m = "POST" THEN <<"P","O","S","T">> ELSE <<"G","E","T">>

\* fmt.Sprintf(`"%s: %s"`, k, e)
HeaderArg(k, e) == <<"\"">> \o k \o <<":", " ">> \o e \o <<"\"">>

HeaderArgs(h, order) ==
    Flatten([i \in 1..Len(order) |->
        Flatten([j \in 1..Len(h[order[i]]) |->
            <<TH, HeaderArg(order[i], h[order[i]][j])>>])])

CurlArgs(method, h, order, logData, url) ==
    <<Tcurl, Tv, TX, TMethod(method)>>
    \o HeaderArgs(h, order)
    \o (IF Len(logData) > 0 THEN <<TDataBinary, quoteSh(logData)>> ELSE <<>>)
    \o <<quoteSh(url)>>

\* the orders a range over the map h may take
Orders(h) ==
    {o \in [1..Cardinality(DOMAIN h) -> DOMAIN h] :
        \A i, j \in DOMAIN o : i # j => o[i] # o[j]}

(***************************************************************************)
(* request, lines 190-200: the client the request is sent with.  The       *)
(* result is the heap after the step and the client value used.            *)
(***************************************************************************)
\* a redirect hook written to the resolved client itself
ResolveClientInPlace(b, hp) ==
    LET ptr == IF b.client # NilClient THEN b.client ELSE DefaultClient
        set == [hp EXCEPT ![ptr].CheckRedirect = "ErrRedirect"]
    IN  IF b.disableRedirect
        THEN [heap |-> set, client |-> set[ptr]]
        ELSE [heap |-> hp, client |-> hp[ptr]]

\* a redirect hook that is never installed
ResolveClientKeepsHook(b, hp) ==
    LET ptr == IF b.client # NilClient THEN b.client ELSE DefaultClient
    IN  [heap |-> hp, client |-> hp[ptr]]

ResolveClient(b, hp) ==
    LET ptr == IF b.client # NilClient THEN b.client ELSE DefaultClient
    IN  IF b.disableRedirect
        THEN [heap   |-> hp,
              client |-> [hp[ptr] EXCEPT !.CheckRedirect = "ErrRedirect"]]
        ELSE [heap |-> hp, client |-> hp[ptr]]

(***************************************************************************)
(* client.Do (net/http): the request is sent; a response with a redirect   *)
(* status and a Location is handed to the client's CheckRedirect, or       *)
(* followed when the client has none.  answers are the server's answers,   *)
(* one per request sent; hook is what a caller's own CheckRedirect says.   *)
(***************************************************************************)
RedirectCodes == {301, 302, 303, 307, 308}

ErrRedirect == Err("errors.errorString", <<"redirect">>)

\* the *url.Error Do wraps a CheckRedirect error in
URLError(e) == [e EXCEPT !.kind = "url.Error"]

\* errors.Is(err, target)
ErrorsIs(e, target) ==
    e = target \/ (e.kind = "url.Error" /\ e.text = target.text)

ShouldRedirect(a) == a.code \in RedirectCodes /\ a.location # <<>>

DoEvent(url) == [op |-> "Do", text |-> url]

RECURSIVE Do(_, _, _, _, _, _)
Do(client, url, answers, hook, i, events) ==
    IF i > Len(answers)
    THEN [err |-> NoErr, resp |-> NoResponse, events |-> events,
          used |-> i, askedHook |-> FALSE]
    ELSE
    LET a == answers[i]
        ev == Append(events, DoEvent(url))
    IN  IF a.kind = "error"
        THEN [err |-> Err("transport", <<>>), resp |-> NoResponse,
              events |-> ev, used |-> i, askedHook |-> FALSE]
        ELSE IF ~ShouldRedirect(a)
        THEN [err |-> NoErr, resp |-> a, events |-> ev, used |-> i,
              askedHook |-> FALSE]
        ELSE IF client.CheckRedirect = "ErrRedirect"
        THEN [err |-> URLError(ErrRedirect), resp |-> NoResponse,
              events |-> ev, used |-> i, askedHook |-> FALSE]
        ELSE IF client.CheckRedirect = "caller" /\ hook = "deny"
        THEN [err |-> URLError(Err("caller", <<>>)), resp |-> NoResponse,
              events |-> ev, used |-> i, askedHook |-> TRUE]
        ELSE LET r == Do(client, a.location, answers, hook, i + 1, ev)
             IN  [r EXCEPT !.askedHook = (client.CheckRedirect = "caller")]

(***************************************************************************)
(* request, lines 100-222.  env is what the environment decides during     *)
(* the call: whether gzip succeeds, whether the log file can be written,   *)
(* the order of the range over the header map, a caller's redirect hook,   *)
(* the server's answers and whether the body can be read.  The result also *)
(* says which of these the call came to depend on.                         *)
(***************************************************************************)
WriteEvent(path) == [op |-> "WriteFile", text |-> path]
StderrEvent == [op |-> "Stderr", text |-> <<>>]

NoAsk == [gz |-> FALSE, write |-> FALSE, order |-> FALSE, hook |-> FALSE,
          read |-> FALSE]

Return(b, hp, resp, err) ==
    [ c |-> b, heap |-> hp, resp |-> resp, err |-> err, req |-> NoRequest,
      gzipped |-> FALSE, logged |-> NoLog, events |-> <<>>,
      client |-> NoClientValue, httpResp |-> NoResponse, asked |-> NoAsk,
      used |-> 0 ]

\* a Content-Encoding set whether or not the body was compressed
SetEncodingAlways(h, gzipped) == HSet(h, ContentEncoding, Gzip)

\* lines 187-189
SetEncoding(h, gzipped) ==
    IF gzipped THEN HSet(h, ContentEncoding, Gzip) ELSE h

\* an exchange that reads the body into memory whether or not it is needed
ExchangeAlwaysCaptures(pre, needData, env) ==
    LET d == Do(pre.client, pre.req.url, env.answers, env.hook, 1, pre.events)
        sent == [pre EXCEPT !.events = d.events, !.used = d.used,
                            !.asked.hook = d.askedHook]
    IN  IF d.err # NoErr \/ d.resp.kind = "none"
        THEN [sent EXCEPT !.err = d.err]
        ELSE LET got == [sent EXCEPT !.httpResp = d.resp,
                                     !.asked.read = needData]
             IN  IF needData /\ ~env.readOk
                 THEN [got EXCEPT !.err = Err("ReadAll", <<>>)]
                 ELSE IF d.resp.code >= 300
                 THEN [got EXCEPT !.err =
                         [kind |-> "response err", code |-> d.resp.code,
                          status |-> d.resp.status, text |-> d.resp.body]]
                 ELSE [got EXCEPT !.resp = Body(d.resp.body)]

\* lines 201-221: the exchange and the classification of the response
Exchange(pre, needData, env) ==
    LET d == Do(pre.client, pre.req.url, env.answers, env.hook, 1, pre.events)
        sent == [pre EXCEPT !.events = d.events, !.used = d.used,
                            !.asked.hook = d.askedHook]
    IN  IF d.err # NoErr \/ d.resp.kind = "none"
        THEN [sent EXCEPT !.err = d.err]
        ELSE LET got == [sent EXCEPT !.httpResp = d.resp,
                                     !.asked.read = needData]
                 body == IF needData THEN Body(d.resp.body) ELSE NoBody
             IN  IF needData /\ ~env.readOk
                 THEN [got EXCEPT !.err = Err("ReadAll", <<>>)]
                 ELSE IF d.resp.code >= 300
                 THEN [got EXCEPT !.err =
                         [kind |-> "response err", code |-> d.resp.code,
                          status |-> d.resp.status, text |-> body.bytes]]
                 ELSE [got EXCEPT !.resp = body]

\* lines 187-221
Send(pre, needData, env) ==
    LET rc == ResolveClient(pre.c, pre.heap)
    IN  Exchange([pre EXCEPT
                    !.req.header = SetEncoding(pre.req.header, pre.gzipped),
                    !.heap = rc.heap, !.client = rc.client],
                 needData, env)

\* a log step that goes on after a failed write and reports it at the end
LogStepBestEffort(pre, logData, needData, env) ==
    LET b == pre.c
        needLog == b.log \/ b.logFile # <<>>
        args == CurlArgs(pre.req.method, pre.req.header, env.order, logData,
                         pre.req.url)
        writes == needLog /\ b.logFile # <<>>
        ev1 == IF writes THEN <<WriteEvent(b.logFile)>> ELSE <<>>
        ev2 == IF needLog /\ b.log THEN Append(ev1, StderrEvent) ELSE ev1
        logged == [pre EXCEPT
                     !.logged = IF needLog
                                THEN [present |-> TRUE, args |-> args,
                                      cmdLog |-> Join(args)]
                                ELSE NoLog,
                     !.asked.order = needLog, !.asked.write = writes]
        sent == Send([logged EXCEPT !.events = ev2], needData, env)
    IN  IF writes /\ ~env.writeOk
        THEN [sent EXCEPT !.err = Err("log err", b.logFile), !.resp = NoBody]
        ELSE sent

\* lines 161-186 and what follows them: the command is built; with a log
\* file it is written, and a failed write ends the call; with log set it is
\* printed; then the request is sent
LogStep(pre, logData, needData, env) ==
    LET b == pre.c
        needLog == b.log \/ b.logFile # <<>>
        args == CurlArgs(pre.req.method, pre.req.header, env.order, logData,
                         pre.req.url)
        writes == needLog /\ b.logFile # <<>>
        ev1 == IF writes THEN <<WriteEvent(b.logFile)>> ELSE <<>>
        ev2 == IF needLog /\ b.log THEN Append(ev1, StderrEvent) ELSE ev1
        logged == [pre EXCEPT
                     !.logged = IF needLog
                                THEN [present |-> TRUE, args |-> args,
                                      cmdLog |-> Join(args)]
                                ELSE NoLog,
                     !.asked.order = needLog, !.asked.write = writes]
    IN  IF writes /\ ~env.writeOk
        THEN [logged EXCEPT !.err = Err("log err", b.logFile)]
        ELSE Send([logged EXCEPT !.events = ev2], needData, env)

request(b, hp, url, post, data, needData, env) ==
    IF b.buildErr # NoErr THEN Return(b, hp, NoBody, b.buildErr)
    ELSE
    LET ser == Serialize(b, post, data, env.gzOk)
        ask == [NoAsk EXCEPT !.gz = ser.askedGz]
    IN  IF ser.err # NoErr
        THEN [Return(b, hp, NoBody, ser.err) EXCEPT !.asked = ask]
        ELSE IF ParseFails(url)
        THEN [Return(b, hp, NoBody, Err("NewRequest", url)) EXCEPT !.asked = ask]
        ELSE
        LET ah == ApplyHeaders(b, post)
            req == [present |-> TRUE,
                    method |-> IF post THEN "POST" ELSE "GET", url |-> url,
                    header |-> ah.header, body |-> ser.body]
        IN  LogStep([Return(ah.c, hp, NoBody, NoErr) EXCEPT
                       !.req = req, !.gzipped = ser.gzipped, !.asked = ask],
                    ser.logData, needData, env)

(***************************************************************************)
(* unmarshalSafeNumber: the decoder is put in UseNumber mode, so a JSON    *)
(* number is kept as its text.  Of JSON, numbers are modelled: any other   *)
(* body is a syntax error.                                                 *)
(***************************************************************************)
Digits == {"0","1","2","3","4","5","6","7","8","9"}

IsNumber(b) ==
    /\ b # <<>>
    /\ \A i \in 1..Len(b) : b[i] \in Digits
    /\ (Len(b) > 1 => b[1] # "0")

Unset == [kind |-> "unset", val |-> <<>>]

unmarshalSafeNumber(body) ==
    IF IsNumber(body)
    THEN [err |-> NoErr, out |-> [kind |-> "json.Number", val |-> body]]
    ELSE [err |-> Err("json.SyntaxError", <<>>), out |-> Unset]

\* Get and PostJSON after request has returned: res is the kind of the
\* result target ("nil", "PlainHtml" or "interface")
Decode(r, res) ==
    IF r.err # NoErr THEN [err |-> r.err, out |-> Unset]
    ELSE IF res = "nil" \/ Len(r.resp.bytes) = 0
    THEN [err |-> NoErr, out |-> Unset]
    ELSE IF res = "PlainHtml"
    THEN [err |-> NoErr, out |-> [kind |-> "PlainHtml", val |-> r.resp.bytes]]
    ELSE unmarshalSafeNumber(r.resp.bytes)

(***************************************************************************)
(* Get and PostJSON.                                                       *)
(***************************************************************************)
\* the environment's choices the call did not come to depend on are fixed,
\* and the server gave as many answers as requests were sent
EnvFits(r, env, post) ==
    /\ r.used = Len(env.answers)
    /\ ~r.asked.gz => env.gzOk
    /\ ~r.asked.write => env.writeOk
    /\ ~r.asked.hook => env.hook = "allow"
    /\ ~r.asked.read => env.readOk
    /\ IF r.asked.order
       THEN env.order \in Orders(ApplyHeaders(r.c, post).header)
       ELSE env.order = <<>>

Execute(url, post, data, res, env) ==
    LET r == request(c, heap, url, post, data, res # "nil", env)
        d == Decode(r, res)
    IN  /\ EnvFits(r, env, post)
        /\ c' = r.c
        /\ heap' = r.heap
        /\ last' = [ called |-> TRUE, post |-> post, url |-> url,
                     data |-> data, res |-> res, req |-> r.req,
                     gzipped |-> r.gzipped, logged |-> r.logged,
                     events |-> r.events, client |-> r.client,
                     httpResp |-> r.httpResp, resp |-> r.resp, err |-> r.err,
                     env |-> env,
                     again |-> (last.called /\ last.post = post
                                /\ last.url = url /\ last.data = data
                                /\ last.res = res),
                     ret |-> d.err, out |-> d.out ]

PostJSON(url, data, res, env) == Execute(url, TRUE, data, res, env)

Get(url, res, env) == Execute(url, FALSE, NilData, res, env)

(***************************************************************************)
(* The inputs the calls are explored with.                                 *)
(***************************************************************************)
XId == <<"x","-","i","d">>
XID == <<"X","-","I","D">>
LowerContentEncoding ==
    <<"c","o","n","t","e","n","t","-","e","n","c","o","d","i","n","g">>

GoodProxy == <<"h","t","t","p",":","/","/","p">>
BadProxy == <<":","p">>
BadProxy2 == <<"\t">>

GoodURL == <<"h","t","t","p",":","/","/","s">>
BadURL == <<":","s">>
Target == <<"h","t","t","p",":","/","/","t">>

BytesData == [type |-> "[]byte", val |-> <<"a">>]
RawData == [type |-> "json.RawMessage", val |-> <<"1">>]
QuoteData == [type |-> "string", val |-> <<"'">>]
EmptyData == [type |-> "string", val |-> <<>>]
MapData == [type |-> "map", val |-> <<"a", "1">>]
ChanData == [type |-> "chan", val |-> <<>>]

TransportError ==
    [kind |-> "error", code |-> 0, status |-> <<>>, location |-> <<>>,
     body |-> <<>>]

Response(code, status, location, body) ==
    [kind |-> "response", code |-> code, status |-> status,
     location |-> location, body |-> body]

OK7 == Response(200, <<"200 OK">>, <<>>, <<"7">>)
OKEmpty == Response(200, <<"200 OK">>, <<>>, <<>>)
OKText == Response(200, <<"200 OK">>, <<>>, <<"n","f">>)
Found == Response(302, <<"302 Found">>, Target, <<>>)
FoundNowhere == Response(302, <<"302 Found">>, <<>>, <<"7">>)
NotModified == Response(304, <<"304 Not Modified">>, Target, <<>>)
NotFound == Response(404, <<"404 Not Found">>, <<>>, <<"n","f">>)

\* the answers of one exchange: every answer but the last is a redirect
Chains(answers) ==
    {s \in UNION {[1..n -> answers] : n \in 0..(MaxHops + 1)} :
        \A i \in 1..(Len(s) - 1) : ShouldRedirect(s[i])}

PlainChains == Chains({OK7})
RedirectChains == Chains({OK7, Found})
StatusChains ==
    Chains({TransportError, OK7, OKEmpty, OKText, Found, FoundNowhere,
            NotModified, NotFound})
BodyChains == Chains({TransportError, OK7})

\* the choices of the environment that can matter to a call on builder b;
\* faults are the outcomes of the steps that can fail ({TRUE}: none fails)
Envs(b, hp, post, data, res, chains, faults) ==
    [ gzOk    : IF b.enableCompress /\ post /\ data.type # "nil"
                THEN faults ELSE {TRUE},
      writeOk : IF b.logFile # <<>> THEN faults ELSE {TRUE},
      hook    : IF ResolveClient(b, hp).client.CheckRedirect = "caller"
                THEN {"allow", "deny"} ELSE {"allow"},
      readOk  : IF res # "nil" THEN faults ELSE {TRUE},
      answers : chains,
      order   : IF b.log \/ b.logFile # <<>>
                THEN Orders(ApplyHeaders(b, post).header) \cup {<<>>}
                ELSE {<<>>} ]

(***************************************************************************)
(* Spec: the configuration calls, with proxy URLs that parse and that do   *)
(* not, and executions that succeed.                                       *)
(***************************************************************************)
Next ==
    \/ \E name \in {XId} : Header(name, <<"1">>)
    \/ \E proxyURL \in {<<>>, GoodProxy, BadProxy, BadProxy2} :
         WithProxy(proxyURL)
    \/ \E client \in {2} : WithClient(client)
    \/ Compressed
    \/ DisableRedirect
    \/ \E v \in {<<>>, <<FALSE>>} : Log(v)
    \/ \E logFile \in {<<>>, <<"f">>} : LogFile(logFile)
    \/ \E env \in Envs(c, heap, FALSE, NilData, "nil", PlainChains, {TRUE}) :
         Get(GoodURL, "nil", env)
    \/ \E env \in Envs(c, heap, TRUE, MapData, "interface", PlainChains, {TRUE}) :
         PostJSON(GoodURL, MapData, "interface", env)

Spec == Init /\ [][Next]_vars

(***************************************************************************)
(* SpecHeader: Header with names that differ in case and with several      *)
(* values.                                                                 *)
(***************************************************************************)
NextHeader ==
    \/ \E name \in {XId, XID, LowerContentEncoding}, value \in {<<"1">>, <<"2">>} :
         Header(name, value)
    \/ WithProxy(BadProxy)
    \/ WithClient(2)
    \/ Compressed
    \/ DisableRedirect
    \/ Log(<<>>)
    \/ LogFile(<<"f">>)
    \/ \E env \in Envs(c, heap, FALSE, NilData, "nil", PlainChains, {TRUE}) :
         Get(GoodURL, "nil", env)
    \/ \E env \in Envs(c, heap, TRUE, MapData, "nil", PlainChains, {TRUE}) :
         PostJSON(GoodURL, MapData, "nil", env)

SpecHeader == Init /\ [][NextHeader]_vars

(***************************************************************************)
(* SpecClient: every client, proxies, and executions the server answers    *)
(* with redirects.                                                         *)
(***************************************************************************)
NextClient ==
    \/ Header(XId, <<"1">>)
    \/ \E proxyURL \in {GoodProxy, BadProxy} : WithProxy(proxyURL)
    \/ \E client \in {NilClient} \cup CallerClients : WithClient(client)
    \/ Compressed
    \/ DisableRedirect
    \/ Log(<<>>)
    \/ LogFile(<<"f">>)
    \/ \E env \in Envs(c, heap, FALSE, NilData, "nil", RedirectChains, {TRUE}) :
         Get(GoodURL, "nil", env)
    \/ \E env \in Envs(c, heap, TRUE, BytesData, "nil", RedirectChains, {TRUE}) :
         PostJSON(GoodURL, BytesData, "nil", env)

SpecClient == Init /\ [][NextClient]_vars

(***************************************************************************)
(* SpecStatus: executions with every kind of answer and result target, on  *)
(* a builder whose client and redirect policy are configured.              *)
(***************************************************************************)
NextStatus ==
    \/ WithProxy(BadProxy)
    \/ WithClient(2)
    \/ DisableRedirect
    \/ \E res \in {"nil", "PlainHtml", "interface"} :
         \E env \in Envs(c, heap, FALSE, NilData, res, StatusChains, BOOLEAN) :
            Get(GoodURL, res, env)
    \/ \E res \in {"nil", "interface"} :
         \E env \in Envs(c, heap, TRUE, BytesData, res, StatusChains, BOOLEAN) :
            PostJSON(GoodURL, BytesData, res, env)

SpecStatus == Init /\ [][NextStatus]_vars

(***************************************************************************)
(* SpecBody: executions with every payload shape, on a builder whose       *)
(* headers, compression and logging are configured.                        *)
(***************************************************************************)
NextBody ==
    \/ Header(LowerContentEncoding, <<"1">>)
    \/ Compressed
    \/ Log(<<>>)
    \/ LogFile(<<"f">>)
    \/ \E url \in {GoodURL, BadURL} :
         \E env \in Envs(c, heap, FALSE, NilData, "interface", BodyChains, BOOLEAN) :
            Get(url, "interface", env)
    \/ \E data \in {NilData, BytesData, RawData, QuoteData, EmptyData,
                    MapData, ChanData} :
         \E env \in Envs(c, heap, TRUE, data, "nil", BodyChains, BOOLEAN) :
            PostJSON(GoodURL, data, "nil", env)

SpecBody == Init /\ [][NextBody]_vars

(***************************************************************************)
(* Properties.                                                             *)
(***************************************************************************)
BuilderFields ==
    {"buildErr", "header", "log", "logFile", "enableCompress",
     "disableRedirect", "client"}

\* the positions of the sends among a call's writes and sends
DoEvents(l) == {i \in 1..Len(l.events) : l.events[i].op = "Do"}
Dispatched(l) == DoEvents(l) # {}

\* C1: once WithProxy has stored a parse error, buildErr keeps that very
\* value through every later call, and every later Get or PostJSON returns it
\* without assembling a request or sending one.
C1_BuildErrSticky ==
    [][c.buildErr # NoErr =>
         /\ c'.buildErr = c.buildErr
         /\ last'.called =>
              /\ last'.ret = c.buildErr
              /\ last'.err = c.buildErr
              /\ ~last'.req.present
              /\ last'.events = <<>>]_vars

\* an execution on a builder poisoned by the second bad proxy URL, with a
\* header, compression and a client configured
C1_Witness ==
    /\ last.called
    /\ c.buildErr.kind = "url.Parse"
    /\ c.buildErr.text = BadProxy2
    /\ last.ret = c.buildErr
    /\ c.header # EmptyHeader
    /\ c.enableCompress
    /\ c.client # NilClient

\* C2 as stated: after the build error, no configuration call changes any
\* field of the builder.
C2_AllNoOps ==
    [][c.buildErr # NoErr /\ ~last'.called => c' = c]_vars

\* C2 as amended: after the build error, no configuration call changes
\* buildErr or creates a client, WithProxy changes nothing, and any other
\* configuration call changes at most its own field.
C2_OnlyProxyNoOp ==
    [][c.buildErr # NoErr /\ ~last'.called =>
         /\ c'.buildErr = c.buildErr
         /\ DOMAIN heap' \subseteq DOMAIN heap
         /\ \A a \in DOMAIN heap' : heap'[a] = heap[a]
         /\ Cardinality({f \in BuilderFields : c'[f] # c[f]}) <= 1
         /\ \A p \in {<<>>, GoodProxy, BadProxy, BadProxy2} :
              WithProxy(p) => c' = c]_vars

\* a poisoned builder whose header and log file were configured
C2_Witness ==
    /\ ~last.called
    /\ c.buildErr # NoErr
    /\ c.header # EmptyHeader
    /\ c.logFile # <<>>
    /\ c.disableRedirect

\* C3: the default client and the clients the caller owns keep the Transport
\* and CheckRedirect they had; the proxy transport and the redirect hook are
\* only on objects the builder made.
C3_ClientsIntact ==
    /\ \A a \in DOMAIN InitHeap : heap[a] = InitHeap[a]
    /\ last.called /\ last.client.CheckRedirect = "ErrRedirect" =>
         \A a \in DOMAIN heap : heap[a].CheckRedirect # "ErrRedirect"

\* an execution with DisableRedirect on a builder given the caller's client
\* and then a proxy: the request went out through a copy of a copy
C3_Witness ==
    /\ last.called
    /\ Dispatched(last)
    /\ c.disableRedirect
    /\ c.client \notin DOMAIN InitHeap \cup {NilClient}
    /\ heap[c.client].Transport = ProxyTransport(GoodProxy)
    /\ heap[c.client].CheckRedirect = "caller"
    /\ last.client.CheckRedirect = "ErrRedirect"
    /\ last.client.Transport = ProxyTransport(GoodProxy)

\* what request returns for a response, by the claim
Classified(l) ==
    LET captured == IF l.res # "nil" THEN l.httpResp.body ELSE <<>>
    IN  IF l.httpResp.code >= 300
        THEN /\ l.err = [kind |-> "response err", code |-> l.httpResp.code,
                         status |-> l.httpResp.status, text |-> captured]
             /\ ~l.resp.present
        ELSE /\ l.err = NoErr
             /\ l.resp = IF l.res # "nil" THEN Body(captured) ELSE NoBody

\* C4 as stated: every execution that obtains a response returns the status
\* error (code, status text, captured body) for a code >= 300 and the
\* captured body without error below 300; none returns a body and an error.
C4_StatusClassified ==
    last.called =>
        /\ last.httpResp.kind = "response" => Classified(last)
        /\ ~(last.resp.present /\ last.err # NoErr)

\* C4 as amended: the same, for the executions whose body, when a result was
\* requested, is read without error.
C4_StatusClassifiedWhenRead ==
    last.called =>
        /\ last.httpResp.kind = "response" /\ last.env.readOk => Classified(last)
        /\ ~(last.resp.present /\ last.err # NoErr)

\* a 404 whose body was not requested: the status error carries no body
C4_Witness ==
    /\ last.called
    /\ last.res = "nil"
    /\ last.httpResp = NotFound
    /\ last.err.kind = "response err"
    /\ last.err.code = 404
    /\ last.err.text = <<>>

\* the client the builder resolves when it leaves redirects alone
Configured == heap[IF c.client # NilClient THEN c.client ELSE DefaultClient]

RedirectRefused(l) ==
    /\ ErrorsIs(l.err, ErrRedirect)
    /\ Cardinality(DoEvents(l)) = 1

Payload(d) ==
    IF d.type \in {"[]byte", "json.RawMessage", "string"} THEN d.val
    ELSE Marshal(d).bytes

\* the arguments that follow flag in a command
ArgsAfter(args, flag) ==
    {args[i + 1] : i \in {j \in 1..(Len(args) - 1) : args[j] = flag}}

\* C6: a POST with a payload and compression sends the gzip of the serialized
\* payload, and the command logged for it carries the serialized payload
\* itself (quoted) as its data argument, or none for an empty payload.
C6_WireGzipLogPlain ==
    last.called /\ last.post /\ last.data.type # "nil" /\ c.enableCompress
        /\ Dispatched(last) =>
        /\ IsGzip(last.req.body.bytes)
        /\ Gunzip(last.req.body.bytes) = Payload(last.data)
        /\ last.logged.present =>
             ArgsAfter(last.logged.args, TDataBinary) =
                IF Payload(last.data) = <<>> THEN {}
                ELSE {quoteSh(Payload(last.data))}

\* a compressed and logged POST of a map
C6_Witness ==
    /\ last.called
    /\ last.data = MapData
    /\ c.enableCompress
    /\ c.log
    /\ Dispatched(last)
    /\ last.logged.present
    /\ IsGzip(last.req.body.bytes)

\* C7: a Get or PostJSON leaves every field of the builder and every client
\* as it was, whatever it returns; and when the call before it was the same
\* call and both sent a request, they sent the same request with the same
\* client.
C7_ExecutionFrame ==
    [][last'.called =>
         /\ c' = c
         /\ heap' = heap
         /\ last'.again /\ Dispatched(last) /\ Dispatched(last') =>
              /\ last'.req = last.req
              /\ last'.client = last.client]_vars

\* the second of two equal POSTs on a builder with a header, compression and
\* logging, ending in an error
C7_Witness ==
    /\ last.called
    /\ last.again
    /\ last.post
    /\ Dispatched(last)
    /\ last.err # NoErr
    /\ c.header # EmptyHeader
    /\ c.enableCompress
    /\ c.log

Lower(s) == [i \in 1..Len(s) |-> ToLower(s[i])]
SameName(a, b) == Lower(a) = Lower(b)
KeysFor(h, n) == {k \in DOMAIN h : SameName(k, n)}
ValuesFor(h, n) == {h[k] : k \in KeysFor(h, n)}
Names == {XId, XID, LowerContentEncoding}

\* C8: after Header(n, v) the builder holds, for n in any spelling, the one
\* value v; the other names keep what they had; the same call again changes
\* nothing; and no name ever has two entries or two values.
C8_HeaderReplaces ==
    [][\A n \in Names, v \in {<<"1">>, <<"2">>} :
         Header(n, v) =>
            /\ Cardinality(KeysFor(c'.header, n)) = 1
            /\ ValuesFor(c'.header, n) = {<<v>>}
            /\ \A m \in Names :
                 /\ ~SameName(m, n) =>
                      ValuesFor(c'.header, m) = ValuesFor(c.header, m)
                 /\ Cardinality(KeysFor(c'.header, m)) <= 1
            /\ SetHeader(c', n, v) = c']_vars

\* two names set, one of them to the second value
C8_Witness ==
    /\ DOMAIN c.header = {CanonicalKey(XId), ContentEncoding}
    /\ c.header[CanonicalKey(XId)] = <<"2">>
    /\ c.header[ContentEncoding] = <<"1">>

\* C9: an execution that ends with a serialization, compression, request
\* construction or log-file error has sent nothing; and with a log file set,
\* the file is written before anything is sent.
C9_FailBeforeDispatch ==
    last.called =>
        /\ last.err.kind \in {"json.UnsupportedTypeError", "compress body err",
                              "NewRequest", "log err"} => ~Dispatched(last)
        /\ c.logFile # <<>> /\ Dispatched(last) =>
             \E i \in 1..Len(last.events) :
                /\ last.events[i].op = "WriteFile"
                /\ \A j \in DoEvents(last) : i < j

\* a log file that cannot be written
C9_Witness ==
    /\ last.called
    /\ last.err.kind = "log err"
    /\ last.req.present
    /\ ~Dispatched(last)

\* the -H arguments for the headers h
HeaderArgSet(h) ==
    UNION {{HeaderArg(k, h[k][j]) : j \in DOMAIN h[k]} : k \in DOMAIN h}

\* C10 as stated: the -H arguments of the command are the headers of the
\* request that is sent, and that request has Content-Encoding only when its
\* body was compressed.
C10_LogHasAllHeaders ==
    last.called /\ Dispatched(last) =>
        /\ last.logged.present =>
             ArgsAfter(last.logged.args, TH) = HeaderArgSet(last.req.header)
        /\ ContentEncoding \in DOMAIN last.req.header => last.gzipped

\* C10 as amended: the -H arguments are the builder's headers and, for a
\* POST, Content-Type; the request sent has these headers and, when its body
\* was compressed, Content-Encoding: gzip in place of any configured one.
C10_EncodingAfterLog ==
    last.called /\ Dispatched(last) =>
        LET before == IF last.post THEN HSet(c.header, ContentType, AppJSON)
                      ELSE c.header
        IN  /\ last.logged.present =>
                 ArgsAfter(last.logged.args, TH) = HeaderArgSet(before)
            /\ last.req.header =
                 IF IsGzip(last.req.body.bytes)
                 THEN HSet(before, ContentEncoding, Gzip)
                 ELSE before

\* a compressed POST whose command lacks the Content-Encoding it was sent
\* with
C10_Witness ==
    /\ last.called
    /\ Dispatched(last)
    /\ last.logged.present
    /\ IsGzip(last.req.body.bytes)
    /\ last.req.header[ContentEncoding] = <<Gzip>>
    /\ HeaderArg(ContentEncoding, Gzip) \notin ArgsAfter(last.logged.args, TH)

====
